---- MODULE Spec2Model ----
(***************************************************************************)
(* Model of railway-deploy.py: run_command (one blocking subprocess call   *)
(* with a timeout, whose outcome is logged and turned into an optional     *)
(* string) and main (token, status query, variable-set loop, deploy,       *)
(* final messages).                                                        *)
(*                                                                         *)
(* A printed line is a record [tag, text]: tag stands for the fixed part   *)
(* of the f-string (the emoji and the words), text for the interpolated    *)
(* part.  An optional string is None or Some(s).  The external world (the  *)
(* railway CLI) answers every subprocess call with one outcome drawn from  *)
(* Outcomes.                                                               *)
(***************************************************************************)
EXTENDS Integers, Sequences, FiniteSets, TLC

VARIABLES pc, environ, log, calls, frame, status, deploy, i, exitStatus

vars == <<pc, environ, log, calls, frame, status, deploy, i, exitStatus>>

-----------------------------------------------------------------------------
(* Bounds of the environment's answers *)

MaxReturnCode == 1

StdoutTexts == {"", "Project: auto-alert-saas"}

StderrTexts == {"", "Unauthorized"}

ExceptionMsgs == {"[WinError 267] The directory name is invalid"}

InitialEnvValues == {"unset", "stale"}

-----------------------------------------------------------------------------
(* Values *)

None == [absent |-> TRUE]

Some(s) == [absent |-> FALSE, value |-> s]

\* Python truthiness of an optional string: None and "" are falsy.
Truthy(r) == (~r.absent) /\ (r.value # "")

Line(tag, text) == [tag |-> tag, text |-> text]

Completed(rc, out, err) ==
    [kind |-> "completed", returncode |-> rc, stdout |-> out, stderr |-> err]

TimeoutExpired == [kind |-> "timeout"]

Raised(msg) == [kind |-> "exception", msg |-> msg]

Outcomes ==
    {Completed(rc, out, err) : rc \in 0..MaxReturnCode, out \in StdoutTexts,
                               err \in StderrTexts}
    \cup {TimeoutExpired}
    \cup {Raised(m) : m \in ExceptionMsgs}

-----------------------------------------------------------------------------
(* Program constants *)

DefaultTimeout == 30

VarTimeout == 10

DeployTimeout_default == DefaultTimeout

DeployTimeout == 120

SleepSecs == 1

Cwd == "D:\\Claude\\Projects\\auto-alert-saas"

TokenName == "RAILWAY_TOKEN"

Token == "fbe36775-4296-484e-bd0f-72aa378e01e6"

env_vars ==
    << [key |-> "NODE_ENV", value |-> "production"],
       [key |-> "PORT", value |-> "3001"],
       [key |-> "WEBHOOK_SECRET", value |-> "auto-alert-webhook-secret-2024"] >>

StatusCmd == "railway status"

DeployCmd == "railway up --detach"

SetCmd_unquoted(key, value) ==
    "railway variables --set " \o key \o "=" \o value

\* f'railway variables --set "{key}={value}"'
SetCmd(key, value) ==
    "railway variables --set \"" \o key \o "=" \o value \o "\""

-----------------------------------------------------------------------------
(* run_command: the outcome o is what subprocess.run did *)

\* Variants of run_command, each with one slip.
run_command_stderr_ret(cmd, timeout, o) ==
    IF o.kind = "completed"
    THEN IF o.returncode = 0
         THEN [ret |-> Some(o.stdout), raised |-> FALSE,
               lines |-> <<Line("Executing", cmd), Line("Success", o.stdout)>>]
         ELSE [ret |-> Some(o.stderr), raised |-> FALSE,
               lines |-> <<Line("Executing", cmd), Line("Error", o.stderr)>>]
    ELSE IF o.kind = "timeout"
         THEN [ret |-> None, raised |-> FALSE,
               lines |-> <<Line("Executing", cmd),
                           Line("Timeout", ToString(timeout))>>]
         ELSE [ret |-> None, raised |-> FALSE,
               lines |-> <<Line("Executing", cmd), Line("Exception", o.msg)>>]

run_command_error_stdout(cmd, timeout, o) ==
    IF o.kind = "completed"
    THEN IF o.returncode = 0
         THEN [ret |-> Some(o.stdout), raised |-> FALSE,
               lines |-> <<Line("Executing", cmd), Line("Success", o.stdout)>>]
         ELSE [ret |-> None, raised |-> FALSE,
               lines |-> <<Line("Executing", cmd), Line("Error", o.stdout)>>]
    ELSE IF o.kind = "timeout"
         THEN [ret |-> None, raised |-> FALSE,
               lines |-> <<Line("Executing", cmd),
                           Line("Timeout", ToString(timeout))>>]
         ELSE [ret |-> None, raised |-> FALSE,
               lines |-> <<Line("Executing", cmd), Line("Exception", o.msg)>>]

run_command_default_timeout_msg(cmd, timeout, o) ==
    IF o.kind = "completed"
    THEN IF o.returncode = 0
         THEN [ret |-> Some(o.stdout), raised |-> FALSE,
               lines |-> <<Line("Executing", cmd), Line("Success", o.stdout)>>]
         ELSE [ret |-> None, raised |-> FALSE,
               lines |-> <<Line("Executing", cmd), Line("Error", o.stderr)>>]
    ELSE IF o.kind = "timeout"
         THEN [ret |-> None, raised |-> FALSE,
               lines |-> <<Line("Executing", cmd),
                           Line("Timeout", ToString(DefaultTimeout))>>]
         ELSE [ret |-> None, raised |-> FALSE,
               lines |-> <<Line("Executing", cmd), Line("Exception", o.msg)>>]

run_command_reraise(cmd, timeout, o) ==
    IF o.kind = "completed"
    THEN IF o.returncode = 0
         THEN [ret |-> Some(o.stdout), raised |-> FALSE,
               lines |-> <<Line("Executing", cmd), Line("Success", o.stdout)>>]
         ELSE [ret |-> None, raised |-> FALSE,
               lines |-> <<Line("Executing", cmd), Line("Error", o.stderr)>>]
    ELSE IF o.kind = "timeout"
         THEN [ret |-> None, raised |-> FALSE,
               lines |-> <<Line("Executing", cmd),
                           Line("Timeout", ToString(timeout))>>]
         ELSE [ret |-> None, raised |-> TRUE,
               lines |-> <<Line("Executing", cmd)>>]

run_command_silent_error(cmd, timeout, o) ==
    IF o.kind = "completed"
    THEN IF o.returncode = 0
         THEN [ret |-> Some(o.stdout), raised |-> FALSE,
               lines |-> <<Line("Executing", cmd), Line("Success", o.stdout)>>]
         ELSE [ret |-> None, raised |-> FALSE,
               lines |-> <<Line("Executing", cmd)>>]
    ELSE IF o.kind = "timeout"
         THEN [ret |-> None, raised |-> FALSE,
               lines |-> <<Line("Executing", cmd),
                           Line("Timeout", ToString(timeout))>>]
         ELSE [ret |-> None, raised |-> FALSE,
               lines |-> <<Line("Executing", cmd), Line("Exception", o.msg)>>]

run_command(cmd, timeout, o) ==
    IF o.kind = "completed"
    THEN IF o.returncode = 0
         THEN [ret |-> Some(o.stdout), raised |-> FALSE,
               lines |-> <<Line("Executing", cmd), Line("Success", o.stdout)>>]
         ELSE [ret |-> None, raised |-> FALSE,
               lines |-> <<Line("Executing", cmd), Line("Error", o.stderr)>>]
    ELSE IF o.kind = "timeout"
         THEN [ret |-> None, raised |-> FALSE,
               lines |-> <<Line("Executing", cmd),
                           Line("Timeout", ToString(timeout))>>]
         ELSE [ret |-> None, raised |-> FALSE,
               lines |-> <<Line("Executing", cmd), Line("Exception", o.msg)>>]

\* The subprocess.run call that run_command makes: the child inherits
\* os.environ as it is at the call.
RunCall(cmd, timeout) ==
    [fn |-> "subprocess.run", cmd |-> cmd, timeout |-> timeout,
     cwd |-> Cwd, env |-> environ]

SleepCall(secs) == [fn |-> "time.sleep", secs |-> secs]

\* The activation record of the latest run_command call.
Frame(cmd, timeout, o, r) ==
    [cmd |-> cmd, timeout |-> timeout, outcome |-> o,
     ret |-> r.ret, lines |-> r.lines, raised |-> r.raised]

NoFrame ==
    [cmd |-> "", timeout |-> 0, outcome |-> [kind |-> "none"],
     ret |-> None, lines |-> << >>, raised |-> FALSE]

-----------------------------------------------------------------------------
(* main *)

\* An exception that leaves run_command unwinds main: traceback, status 1.
Resume(r, next) == IF r.raised THEN "crashed" ELSE next

Unwind(r) == IF r.raised THEN 1 ELSE exitStatus

SetToken_late(env) == env

SetToken(env) == [env EXCEPT ![TokenName] = Token]

LoopNext_short(k) == IF k >= Len(env_vars) - 1 THEN "deploy" ELSE "loop"

LoopNext(k) == IF k >= Len(env_vars) THEN "deploy" ELSE "loop"

Init ==
    /\ pc = "start"
    /\ environ \in [{TokenName, "PATH"} -> InitialEnvValues]
    /\ log = << >>
    /\ calls = << >>
    /\ frame = NoFrame
    /\ status = None
    /\ deploy = None
    /\ i = 1
    /\ exitStatus = -1

Start ==
    /\ pc = "start"
    /\ log' = log \o <<Line("Banner", ""), Line("Rule", "")>>
    /\ environ' = SetToken(environ)
    /\ pc' = "status"
    /\ UNCHANGED <<calls, frame, status, deploy, i, exitStatus>>

CheckStatus ==
    /\ pc = "status"
    /\ \E o \in Outcomes :
          LET r == run_command(StatusCmd, DefaultTimeout, o) IN
          /\ log' = log \o <<Line("Step1", "")>> \o r.lines
          /\ calls' = Append(calls, RunCall(StatusCmd, DefaultTimeout))
          /\ frame' = Frame(StatusCmd, DefaultTimeout, o, r)
          /\ status' = IF r.raised THEN status ELSE r.ret
          /\ pc' = Resume(r, "vars")
          /\ exitStatus' = Unwind(r)
    /\ UNCHANGED <<environ, deploy, i>>

BeginVariables ==
    /\ pc = "vars"
    /\ log' = Append(log, Line("Step2", ""))
    /\ i' = 1
    /\ pc' = IF Len(env_vars) = 0 THEN "deploy" ELSE "loop"
    /\ UNCHANGED <<environ, calls, frame, status, deploy, exitStatus>>

SetVariable ==
    /\ pc = "loop"
    /\ i <= Len(env_vars)
    /\ \E o \in Outcomes :
          LET cmd == SetCmd(env_vars[i].key, env_vars[i].value)
              r == run_command(cmd, VarTimeout, o) IN
          /\ log' = log \o r.lines
          /\ calls' = Append(calls, RunCall(cmd, VarTimeout))
          /\ frame' = Frame(cmd, VarTimeout, o, r)
          /\ pc' = Resume(r, "sleep")
          /\ exitStatus' = Unwind(r)
    /\ UNCHANGED <<environ, status, deploy, i>>

Sleep ==
    /\ pc = "sleep"
    /\ calls' = Append(calls, SleepCall(SleepSecs))
    /\ i' = i + 1
    /\ pc' = LoopNext(i)
    /\ UNCHANGED <<environ, log, frame, status, deploy, exitStatus>>

Deploy ==
    /\ pc = "deploy"
    /\ \E o \in Outcomes :
          LET r == run_command(DeployCmd, DeployTimeout, o) IN
          /\ log' = log \o <<Line("Step3", "")>> \o r.lines
          /\ calls' = Append(calls, RunCall(DeployCmd, DeployTimeout))
          /\ frame' = Frame(DeployCmd, DeployTimeout, o, r)
          /\ deploy' = IF r.raised THEN deploy ELSE r.ret
          /\ pc' = Resume(r, "report")
          /\ exitStatus' = Unwind(r)
    /\ UNCHANGED <<environ, status, i>>

Report ==
    /\ pc = "report"
    /\ log' = IF Truthy(deploy)
              THEN log \o <<Line("DeployOk", ""), Line("HintLogs", ""),
                            Line("HintDashboard", "")>>
              ELSE Append(log, Line("DeployFailed", ""))
    /\ pc' = "complete"
    /\ UNCHANGED <<environ, calls, frame, status, deploy, i, exitStatus>>

Complete ==
    /\ pc = "complete"
    /\ log' = Append(log, Line("Complete", ""))
    /\ pc' = "done"
    /\ exitStatus' = 0
    /\ UNCHANGED <<environ, calls, frame, status, deploy, i>>

Next ==
    \/ Start
    \/ CheckStatus
    \/ BeginVariables
    \/ SetVariable
    \/ Sleep
    \/ Deploy
    \/ Report
    \/ Complete

Spec == Init /\ [][Next]_vars

\* main is one sequential thread: a step that can be taken is taken.
FairSpec == Spec /\ WF_vars(Next)

TypeOK ==
    /\ pc \in {"start", "status", "vars", "loop", "sleep", "deploy",
               "report", "complete", "done", "crashed"}
    /\ i \in 1..(Len(env_vars) + 1)
    /\ exitStatus \in {-1, 0, 1}

-----------------------------------------------------------------------------
(* Observations used by the properties *)

IsPrefix(s, t) == Len(s) <= Len(t) /\ \A k \in 1..Len(s) : s[k] = t[k]

IsRun(c) == c.fn = "subprocess.run"

RunCalls == SelectSeq(calls, IsRun)

Cmds == [k \in 1..Len(RunCalls) |-> RunCalls[k].cmd]

Terminated == pc \in {"done", "crashed"}

Called == frame.outcome.kind # "none"

\* main is at the statement that follows a run_command call
JustReturned == pc \in {"vars", "sleep", "report"}

LogTail(n) == SubSeq(log, Len(log) - n + 1, Len(log))

HasTag(t) == \E k \in 1..Len(log) : log[k].tag = t

OutcomeTags == {"Success", "Error", "Timeout", "Exception"}

Succeeded(o) == o.kind = "completed" /\ o.returncode = 0

-----------------------------------------------------------------------------
\* C1: run_command returns the captured standard output exactly when the
\* subprocess exited with code 0, and None on a non-zero exit, a timeout
\* or any other exception.
C1_Theorem ==
    Called =>
       /\ Succeeded(frame.outcome) => frame.ret = Some(frame.outcome.stdout)
       /\ ~Succeeded(frame.outcome) => frame.ret = None
       /\ (frame.ret # None) <=> Succeeded(frame.outcome)

C1_Witness ==
    /\ pc = "report"
    /\ frame.outcome.kind = "completed"
    /\ frame.outcome.returncode = 0
    /\ frame.outcome.stdout = ""
    /\ frame.ret = Some("")
    /\ frame.ret # None

-----------------------------------------------------------------------------
\* C2: in every run the commands issued are, in this order and once each,
\* railway status, the three variable-set commands and railway up --detach,
\* whatever the outcome of each of them.
ExpectedCmds ==
    << "railway status",
       "railway variables --set \"NODE_ENV=production\"",
       "railway variables --set \"PORT=3001\"",
       "railway variables --set \"WEBHOOK_SECRET=auto-alert-webhook-secret-2024\"",
       "railway up --detach" >>

C2_Theorem ==
    /\ IsPrefix(Cmds, ExpectedCmds)
    /\ Terminated => Cmds = ExpectedCmds
    /\ pc = "report" => Cmds = ExpectedCmds

C2_Witness ==
    /\ pc = "done"
    /\ Len(RunCalls) = 5
    /\ ~HasTag("Success")
    /\ HasTag("Error") /\ HasTag("Timeout") /\ HasTag("Exception")

-----------------------------------------------------------------------------
\* C3 (as claimed): after the deploy command main prints the success
\* message whenever run_command returned a result for the deploy command
\* (exit code 0, whatever the standard-output text), and the failure
\* message whenever the result was absent; never both.
C3_Claim ==
    pc \in {"complete", "done"} =>
       /\ HasTag("DeployOk") <=> Succeeded(frame.outcome)
       /\ HasTag("DeployFailed") <=> ~Succeeded(frame.outcome)
       /\ ~(HasTag("DeployOk") /\ HasTag("DeployFailed"))

-----------------------------------------------------------------------------
\* C4: the loop issues one command per entry of the mapping, in insertion
\* order, each railway variables --set "KEY=VALUE", and sleeps 1 second
\* after each of them, so between every two consecutive ones, whether or
\* not they failed.
IsLoopCall(c) ==
    IF IsRun(c) THEN c.cmd \notin {"railway status", "railway up --detach"}
                ELSE TRUE

LoopCalls == SelectSeq(calls, IsLoopCall)

LoopView ==
    [k \in 1..Len(LoopCalls) |->
        IF IsRun(LoopCalls[k])
        THEN [fn |-> "subprocess.run", arg |-> LoopCalls[k].cmd]
        ELSE [fn |-> "time.sleep", arg |-> ToString(LoopCalls[k].secs)]]

ExpectedLoop ==
    << [fn |-> "subprocess.run",
        arg |-> "railway variables --set \"NODE_ENV=production\""],
       [fn |-> "time.sleep", arg |-> "1"],
       [fn |-> "subprocess.run",
        arg |-> "railway variables --set \"PORT=3001\""],
       [fn |-> "time.sleep", arg |-> "1"],
       [fn |-> "subprocess.run",
        arg |-> "railway variables --set \"WEBHOOK_SECRET=auto-alert-webhook-secret-2024\""],
       [fn |-> "time.sleep", arg |-> "1"] >>

C4_Theorem ==
    /\ IsPrefix(LoopView, ExpectedLoop)
    /\ pc \in {"deploy", "report", "complete", "done"} => LoopView = ExpectedLoop
    /\ Terminated => LoopView = ExpectedLoop

C4_Witness ==
    /\ pc = "deploy"
    /\ LoopView = ExpectedLoop
    /\ ~HasTag("Success")

-----------------------------------------------------------------------------
\* C5: for each command kind, a non-zero exit gives an absent result and
\* exactly one logged error line, which holds the captured standard-error
\* text, and no success line.
C5_Theorem ==
    (Called /\ frame.outcome.kind = "completed"
            /\ frame.outcome.returncode # 0) =>
       /\ frame.ret = None
       /\ frame.lines = << Line("Executing", frame.cmd),
                           Line("Error", frame.outcome.stderr) >>
       /\ JustReturned => LogTail(2) = frame.lines
       /\ pc = "vars" => status = None
       /\ pc = "report" => deploy = None

C5_Witness ==
    /\ pc = "sleep"
    /\ frame.outcome.kind = "completed"
    /\ frame.outcome.returncode # 0
    /\ frame.outcome.stderr = "Unauthorized"
    /\ frame.outcome.stdout # ""
    /\ log[Len(log)] = Line("Error", "Unauthorized")

-----------------------------------------------------------------------------
\* C6: a command that exceeds its timeout gives an absent result and the
\* timeout line naming the timeout passed to that call; nothing is raised
\* into main, which goes on to its next statement.
C6_Theorem ==
    (Called /\ frame.outcome.kind = "timeout") =>
       /\ frame.ret = None
       /\ ~frame.raised
       /\ frame.lines = << Line("Executing", frame.cmd),
                           Line("Timeout", ToString(frame.timeout)) >>
       /\ pc # "crashed" /\ exitStatus # 1
       /\ pc \notin {"status", "start"}
       /\ JustReturned => LogTail(2) = frame.lines

C6_Witness ==
    /\ pc = "sleep"
    /\ frame.outcome.kind = "timeout"
    /\ frame.timeout = 10
    /\ log[Len(log)] = Line("Timeout", "10")

-----------------------------------------------------------------------------
\* C7: every run of main ends normally: it reaches the final line with
\* exit status 0, and no step's failure crashes it or sets another status.
C7_Theorem ==
    /\ <>(pc = "done" /\ exitStatus = 0
                      /\ log[Len(log)] = Line("Complete", ""))
    /\ [](pc # "crashed" /\ exitStatus \in {-1, 0})

C7_Witness ==
    /\ pc = "done"
    /\ exitStatus = 0
    /\ ~HasTag("Success")
    /\ HasTag("Exception")
    /\ log[Len(log)] = Line("Complete", "")

-----------------------------------------------------------------------------
\* C8: RAILWAY_TOKEN is set before the first command and keeps that value
\* at every command; after that step the environment never changes, and
\* no other variable of it is ever changed.
C8_Theorem ==
    /\ [](\A k \in 1..Len(RunCalls) :
             /\ RunCalls[k].env[TokenName] =
                   "fbe36775-4296-484e-bd0f-72aa378e01e6"
             /\ RunCalls[k].env = RunCalls[1].env
             /\ RunCalls[k].env = environ)
    /\ [][/\ pc # "start" => environ' = environ
          /\ \A n \in (DOMAIN environ) \ {TokenName} : environ'[n] = environ[n]
          /\ DOMAIN environ' = DOMAIN environ]_vars

C8_Witness ==
    /\ pc = "done"
    /\ Len(RunCalls) = 5
    /\ RunCalls[5].env[TokenName] = "fbe36775-4296-484e-bd0f-72aa378e01e6"
    /\ environ["PATH"] = "stale"

-----------------------------------------------------------------------------
\* C9: the timeout of a command is fixed by its kind: 30 seconds for the
\* status query, 10 for every variable-set command, 120 for the deploy.
C9_Theorem ==
    \A k \in 1..Len(RunCalls) :
       LET c == RunCalls[k] IN
       /\ c.cmd = "railway status" => c.timeout = 30
       /\ c.cmd = "railway up --detach" => c.timeout = 120
       /\ c.cmd \notin {"railway status", "railway up --detach"}
             => c.timeout = 10
       /\ k \in 2..4 => (c.timeout < RunCalls[1].timeout)
       /\ k = 5 => (c.timeout > RunCalls[1].timeout)

C9_Witness ==
    /\ pc = "done"
    /\ Len(RunCalls) = 5
    /\ RunCalls[1].timeout = 30
    /\ RunCalls[3].timeout = 10
    /\ RunCalls[5].timeout = 120
    /\ HasTag("Timeout") /\ HasTag("Error")

-----------------------------------------------------------------------------
\* C10: every run_command call writes two lines, Executing with the
\* command and then one outcome line matching the outcome; so in the log
\* the lines of run_command alternate Executing/outcome, one pair per
\* command, five pairs in a whole run.
IsCallLine(l) == l.tag \in ({"Executing"} \cup OutcomeTags)

CallLines == SelectSeq(log, IsCallLine)

TagOf(o) ==
    IF o.kind = "completed"
    THEN IF o.returncode = 0 THEN "Success" ELSE "Error"
    ELSE IF o.kind = "timeout" THEN "Timeout" ELSE "Exception"

C10_Theorem ==
    /\ Called =>
          /\ Len(frame.lines) = 2
          /\ frame.lines[1] = Line("Executing", frame.cmd)
          /\ frame.lines[2].tag = TagOf(frame.outcome)
    /\ Len(CallLines) = 2 * Len(RunCalls)
    /\ \A k \in 1..Len(RunCalls) :
          /\ CallLines[2 * k - 1] = Line("Executing", RunCalls[k].cmd)
          /\ CallLines[2 * k].tag \in OutcomeTags
    /\ Terminated => Len(CallLines) = 10

C10_Witness ==
    /\ pc = "done"
    /\ Len(CallLines) = 10
    /\ CallLines[2].tag = "Success"
    /\ CallLines[4].tag = "Error"
    /\ CallLines[6].tag = "Timeout"
    /\ CallLines[8].tag = "Exception"

====
